---------------------------- MODULE Spec2Model ----------------------------
(***************************************************************************)
(* filescraper-rs: the filter model (args.rs), the path mapper (args.rs),  *)
(* the traversal (lib.rs gather_files_for_copying, main.rs main) and the   *)
(* parallel copy (lib.rs copy, main.rs copy).                              *)
(*                                                                         *)
(* A string is a sequence of one-character strings; a path string uses     *)
(* MAIN_SEPARATOR "/" (the unix build).  Option<T> is a sequence of length *)
(* 0 (None) or 1 (Some).                                                   *)
(***************************************************************************)
EXTENDS Integers, Sequences, FiniteSets, TLC

VARIABLES
    fnCall,      \* SpecFn: the function under test and its inputs
    fnRet,       \* SpecFn: None before the call, Some(result) after it
    phase,       \* position of the run: start, gathered, copying, done, panicked
    variant,     \* which copy is run: "lib" (lib.rs) or "main" (main.rs)
    args,        \* the Arguments value (args.rs:96-103)
    sourceFs,    \* the source file system: path string -> kind and contents
    targetDirs,  \* directories that exist outside the source tree
    targetFiles, \* regular files written by the copy: path -> contents
    fault,       \* the I/O failure the environment injects (at most one)
    files,       \* the Vec<DirEntry> handed to copy
    leaves,      \* the sequential chunks rayon split files into
    pc,          \* per candidate: todo, prepared, done, panicked
    copyResult,  \* per candidate: none, ok, err (the match on std::fs::copy)
    counter      \* the RelaxedCounter of copy

fnVars == <<fnCall, fnRet>>
runVars == <<phase, variant, args, sourceFs, targetDirs, targetFiles, fault,
             files, leaves, pc, copyResult, counter>>
vars == <<fnCall, fnRet, phase, variant, args, sourceFs, targetDirs,
          targetFiles, fault, files, leaves, pc, copyResult, counter>>

MAIN_SEPARATOR == "/"
DOT == "."

None == <<>>
Some(x) == <<x>>

(***************************************************************************)
(* str::split(MAIN_SEPARATOR): every piece between separators, the empty   *)
(* ones included.                                                           *)
(***************************************************************************)
RECURSIVE SplitFrom(_, _, _)
SplitFrom(s, i, cur) ==
    IF i > Len(s) THEN <<cur>>
    ELSE IF s[i] = MAIN_SEPARATOR
         THEN <<cur>> \o SplitFrom(s, i + 1, <<>>)
         ELSE SplitFrom(s, i + 1, Append(cur, s[i]))

split(s) == SplitFrom(s, 1, <<>>)

(* path_contains_folder comparing the path's last piece only *)
path_contains_folder_last_only(path_str, folder) ==
    LET pieces == split(path_str)
        named == {i \in DOMAIN pieces : pieces[i] # <<>>}
    IN  \E i \in named : (\A j \in named : j <= i) /\ pieces[i] = folder

(* args.rs:197-205.  path.to_str() is Some for every string of the model. *)
path_contains_folder(path_str, folder) ==
    LET pieces == split(path_str)
        folders == {pieces[i] : i \in {j \in DOMAIN pieces : pieces[j] # <<>>}}
    IN  folder \in folders

(* args.rs:184-195 *)
FolderFilter_should_copy(mode, path_str) ==
    IF mode.kind = "Ignored"
    THEN ~ \E ign \in mode.set : path_contains_folder(path_str, ign)
    ELSE \E tar \in mode.set : path_contains_folder(path_str, tar)

(***************************************************************************)
(* std::path::Path::components, each Component written as its string:      *)
(* RootDir "/" first when the string starts with a separator, then the     *)
(* non-empty pieces; a piece "." is dropped unless it leads a rootless     *)
(* path (CurDir); ".." is ParentDir; every other piece is Normal.          *)
(***************************************************************************)
RootDir == <<MAIN_SEPARATOR>>
CurDir == <<DOT>>
ParentDir == <<DOT, DOT>>

Path_components(path_str) ==
    LET pieces == split(path_str)
        has_root == path_str # <<>> /\ path_str[1] = MAIN_SEPARATOR
        kept == {i \in DOMAIN pieces :
                    /\ pieces[i] # <<>>
                    /\ (pieces[i] = CurDir => (i = 1 /\ ~has_root))}
        Keep[i \in 0..Len(pieces)] ==
            IF i = 0 THEN <<>>
            ELSE IF i \in kept THEN Append(Keep[i - 1], pieces[i]) ELSE Keep[i - 1]
    IN  (IF has_root THEN <<RootDir>> ELSE <<>>) \o Keep[Len(pieces)]

(* Path::file_name: the last component when it is Normal *)
Path_file_name(path_str) ==
    LET comps == Path_components(path_str)
    IN  IF comps = <<>> THEN None
        ELSE IF comps[Len(comps)] \in {RootDir, CurDir, ParentDir} THEN None
        ELSE Some(comps[Len(comps)])

(* Path::parent of a component sequence: None for "" and for a root *)
Path_parent(comps) ==
    IF comps = <<>> \/ comps[Len(comps)] = RootDir THEN None
    ELSE Some(SubSeq(comps, 1, Len(comps) - 1))

(* the index of the last "." of s, 0 when there is none *)
LastDot(s) ==
    LET dots == {i \in DOMAIN s : s[i] = DOT}
    IN  IF dots = {} THEN 0 ELSE CHOOSE i \in dots : \A j \in dots : j <= i

(***************************************************************************)
(* std::path::Path::extension: rsplit_file_at_dot on the file name, then   *)
(* before.and(after): None without a ".", None when nothing precedes the   *)
(* last ".", otherwise what follows the last ".".                          *)
(***************************************************************************)
Path_extension(path_str) ==
    LET fname == Path_file_name(path_str)
    IN  IF fname = None THEN None
        ELSE LET d == LastDot(fname[1])
             IN  IF d = 0 THEN None
                 ELSE IF d = 1 THEN None
                 ELSE Some(SubSeq(fname[1], d + 1, Len(fname[1])))

(* file_extension without the "." it puts back in front *)
file_extension_bare(file_name) ==
    LET extension == Path_extension(file_name)
    IN  IF extension = None THEN <<>> ELSE extension[1]

(* args.rs:165-170 *)
file_extension(file_name) ==
    LET extension == Path_extension(file_name)
    IN  IF extension = None THEN <<>> ELSE <<DOT>> \o extension[1]

(* args.rs:151-163 *)
FileExtensionFilter_should_copy(mode, file_name) ==
    IF mode.kind = "Ignored"
    THEN file_extension(file_name) \notin mode.set
    ELSE file_extension(file_name) \in mode.set

(***************************************************************************)
(* std::path::iter_after, as Path::strip_prefix uses it: walk both         *)
(* component sequences; Some(rest) when the prefix runs out, None on the   *)
(* first difference or when the path runs out first.                       *)
(***************************************************************************)
RECURSIVE iter_after(_, _)
iter_after(iter, prefix) ==
    IF prefix = <<>> THEN Some(iter)
    ELSE IF iter = <<>> THEN None
    ELSE IF Head(iter) = Head(prefix) THEN iter_after(Tail(iter), Tail(prefix))
    ELSE None

Path_strip_prefix(path_str, base_str) ==
    iter_after(Path_components(path_str), Path_components(base_str))

(***************************************************************************)
(* Path::join (PathBuf::push), on components: an absolute argument         *)
(* replaces the base; a relative one follows it, where a "." is no longer  *)
(* leading and is dropped.                                                 *)
(***************************************************************************)
Path_join(base, rel) ==
    IF rel # <<>> /\ Head(rel) = RootDir THEN rel
    ELSE IF base = <<>> THEN rel
    ELSE base \o SelectSeq(rel, LAMBDA c : c # CurDir)

(***************************************************************************)
(* args.rs:123-134.  panicked is the panic!("{}", err) of the Err arm; a   *)
(* panicking call returns no path.                                         *)
(***************************************************************************)
transform_source_to_target_path(source_root_file_path, target_root_file_path, source_path) ==
    LET stripped == Path_strip_prefix(source_path, source_root_file_path)
    IN  IF stripped # None
        THEN [panicked |-> FALSE,
              path |-> Some(Path_join(Path_components(target_root_file_path), stripped[1]))]
        ELSE [panicked |-> TRUE, path |-> None]

(***************************************************************************)
(* Inputs of the pure functions.                                           *)
(***************************************************************************)
MaxNameLen == 3
MaxPathLen == 5
MaxRootLen == 3

Strings(alphabet, n) == UNION {[1..k -> alphabet] : k \in 0..n}

NameChars == {"a", "b", DOT}
PathChars == {"a", "b", MAIN_SEPARATOR}

FilterKinds == {"Ignored", "Targeted"}
ExtensionValues == {<<>>, <<DOT>>, <<DOT, "a">>, <<DOT, "b">>}
FolderValues == {<<>>, <<"a">>, <<"b">>, <<"a", "b">>}
TargetRoots == {<<>>, <<"b">>, <<MAIN_SEPARATOR, "b">>, <<"b", MAIN_SEPARATOR, "a">>}

(* args.rs:110-112 hands the extension filter a path's file_name(): a Normal
   component, so never "", "." or ".." *)
FileNames == {n \in Strings(NameChars, MaxNameLen) : Path_file_name(n) = Some(n)}

FnCalls ==
    [fn : {"file_extension_filter"},
     mode : [kind : FilterKinds, set : SUBSET ExtensionValues],
     file_name : FileNames]
    \cup
    [fn : {"folder_filter"},
     mode : [kind : FilterKinds, set : SUBSET FolderValues],
     path : Strings(PathChars, MaxPathLen)]
    \cup
    [fn : {"transform"},
     source_root : Strings(PathChars, MaxRootLen),
     target_root : TargetRoots,
     source_path : Strings(PathChars, MaxPathLen)]

(* the run's variables while only the pure functions are exercised *)
RunIdle ==
    /\ phase = "idle" /\ variant = "lib" /\ args = <<>> /\ sourceFs = {}
    /\ targetDirs = {} /\ targetFiles = {} /\ fault = <<>>
    /\ files = <<>> /\ leaves = {} /\ pc = <<>> /\ copyResult = <<>> /\ counter = 0

InitFn == fnCall \in FnCalls /\ fnRet = None /\ RunIdle

CallFileExtensionFilter ==
    /\ fnCall.fn = "file_extension_filter" /\ fnRet = None
    /\ fnRet' = Some(FileExtensionFilter_should_copy(fnCall.mode, fnCall.file_name))
    /\ UNCHANGED <<fnCall, runVars>>

CallFolderFilter ==
    /\ fnCall.fn = "folder_filter" /\ fnRet = None
    /\ fnRet' = Some(FolderFilter_should_copy(fnCall.mode, fnCall.path))
    /\ UNCHANGED <<fnCall, runVars>>

CallTransform ==
    /\ fnCall.fn = "transform" /\ fnRet = None
    /\ fnRet' = Some(transform_source_to_target_path(
                        fnCall.source_root, fnCall.target_root, fnCall.source_path))
    /\ UNCHANGED <<fnCall, runVars>>

NextFn == CallFileExtensionFilter \/ CallFolderFilter \/ CallTransform

SpecFn == InitFn /\ [][NextFn]_vars

(***************************************************************************)
(* The run: traversal, then the parallel copy.                             *)
(*                                                                         *)
(* The source tree is one of Trees, under the source root "s"; the target  *)
(* root is "t".  Directories are keyed by their component sequence.  A     *)
(* regular file's contents is written as its source path.                  *)
(***************************************************************************)
SourceRoot == <<"s">>
TargetRoot == <<"t">>

Entry(path, is_dir) == [path |-> path, is_dir |-> is_dir]

RootEntry == Entry(SourceRoot, TRUE)
RootAsFile == Entry(SourceRoot, FALSE)
EntryA == Entry(<<"s", "/", "a", ".", "t">>, FALSE)
EntryB == Entry(<<"s", "/", "b">>, TRUE)
EntryC == Entry(<<"s", "/", "b", "/", "c">>, FALSE)
EntryD == Entry(<<"s", "/", "b", "/", "d">>, TRUE)
(* an entry of a walk of another directory, handed to lib.rs's pub copy *)
ForeignEntry == Entry(<<"o">>, FALSE)

(* the trees: no source root, a regular file as source root, a directory *)
Trees ==
    {{}, {RootAsFile}}
    \cup {{RootEntry} \cup X : X \in {Y \in SUBSET {EntryA, EntryB, EntryC, EntryD} :
                                        (EntryC \in Y \/ EntryD \in Y) => EntryB \in Y}}

(* walkdir yields a directory before its contents *)
WalkOrder == <<RootEntry, RootAsFile, EntryA, EntryB, EntryC, EntryD>>

(***************************************************************************)
(* WalkDir::new(root).into_iter(), Err items dropped (lib.rs:18-29): the   *)
(* root itself, then everything beneath it.  A missing root yields one Err *)
(* and nothing else.  The model holds no symbolic link.                    *)
(***************************************************************************)
WalkDir(fs, root) ==
    SelectSeq(WalkOrder, LAMBDA e : e \in fs /\ Path_strip_prefix(e.path, root) # None)

(* Path::is_dir *)
is_dir(fs, path_str) == Entry(path_str, TRUE) \in fs

(* args.rs:106-116 *)
Arguments_should_copy(a, fs, path_str) ==
    IF is_dir(fs, path_str)
    THEN FolderFilter_should_copy(a.folders, path_str)
    ELSE LET file_name == Path_file_name(path_str)
         IN  IF file_name = None THEN FALSE
             ELSE FileExtensionFilter_should_copy(a.file_extensions, file_name[1])

(* lib.rs:17-39, and the same chain in main.rs:21-40 *)
gather_files_for_copying(a, fs) ==
    SelectSeq(WalkDir(fs, a.source_root_file_path),
              LAMBDA e : Arguments_should_copy(a, fs, e.path))

(* args.rs:118-120 *)
Arguments_transform(a, source_path) ==
    transform_source_to_target_path(a.source_root_file_path, a.target_root_file_path, source_path)

NoFault == [op |-> "none", at |-> <<>>]

DirExists(fs, dirs, d) ==
    d = <<>> \/ d \in dirs \/ \E e \in fs : e.is_dir /\ Path_components(e.path) = d

(***************************************************************************)
(* std::fs::create_dir_all: Ok for "" and for a directory that exists;     *)
(* otherwise the missing ancestors are made from the top down, and the     *)
(* first mkdir that fails ends the call with Err.                          *)
(***************************************************************************)
create_dir_all(fs, dirs, flt, d) ==
    LET chain == {SubSeq(d, 1, k) : k \in 1..Len(d)}
        missing == {c \in chain : ~DirExists(fs, dirs, c)}
        fails == flt.op = "mkdir" /\ flt.at \in missing
        made == IF fails THEN {c \in missing : Len(c) < Len(flt.at)} ELSE missing
    IN  [ok |-> ~fails, dirs |-> dirs \cup made]

(***************************************************************************)
(* std::fs::copy: Err unless the source is a regular file, the target's    *)
(* parent directory exists, the target names no directory (and does not    *)
(* end with a separator, as target_root.join("") does) and the write is    *)
(* not refused; Ok writes the contents.                                    *)
(***************************************************************************)
fs_copy(fs, dirs, tfiles, flt, from, to) ==
    LET parent == Path_parent(to)
        ok == /\ Entry(from, FALSE) \in fs
              /\ parent # None
              /\ DirExists(fs, dirs, parent[1])
              /\ ~DirExists(fs, dirs, to)
              /\ to # Path_components(TargetRoot)
              /\ ~(flt.op = "copy" /\ flt.at = to)
    IN  [ok |-> ok,
         files |-> IF ok THEN {f \in tfiles : f.path # to} \cup {[path |-> to, data |-> from]}
                   ELSE tfiles]

(***************************************************************************)
(* lib.rs:47-51: the target path, its parent, the parent's directories.    *)
(* Each unwrap and the panic! of the mapper end the closure by a panic.    *)
(***************************************************************************)
prepare_lib(a, fs, dirs, flt, source_path) ==
    LET target_path == Arguments_transform(a, source_path)
    IN  IF target_path.panicked THEN [panicked |-> TRUE, dirs |-> dirs]
        ELSE LET target_path_parent == Path_parent(target_path.path[1])
             IN  IF target_path_parent = None THEN [panicked |-> TRUE, dirs |-> dirs]
                 ELSE LET made == create_dir_all(fs, dirs, flt, target_path_parent[1])
                      IN  [panicked |-> ~made.ok, dirs |-> made.dirs]

(* main.rs:55-59: the source path's parent is what is created *)
prepare_main(a, fs, dirs, flt, source_path) ==
    LET source_path_parent == Path_parent(Path_components(source_path))
    IN  IF source_path_parent = None THEN [panicked |-> TRUE, dirs |-> dirs]
        ELSE LET made == create_dir_all(fs, dirs, flt, source_path_parent[1])
             IN  IF ~made.ok THEN [panicked |-> TRUE, dirs |-> made.dirs]
                 ELSE [panicked |-> Arguments_transform(a, source_path).panicked,
                       dirs |-> made.dirs]

(* copy_item with the copy's result unwrapped instead of matched *)
copy_item_unwrap(a, fs, dirs, tfiles, flt, source_path) ==
    LET done == fs_copy(fs, dirs, tfiles, flt, source_path,
                        Arguments_transform(a, source_path).path[1])
    IN  [panicked |-> ~done.ok,
         result |-> IF done.ok THEN "ok" ELSE "err",
         files |-> done.files]

(***************************************************************************)
(* lib.rs:52-55 and main.rs:60-63: the match on std::fs::copy; either arm  *)
(* only logs, and the closure goes on to counter.inc().                    *)
(***************************************************************************)
copy_item(a, fs, dirs, tfiles, flt, source_path) ==
    LET done == fs_copy(fs, dirs, tfiles, flt, source_path,
                        Arguments_transform(a, source_path).path[1])
    IN  [panicked |-> FALSE,
         result |-> IF done.ok THEN "ok" ELSE "err",
         files |-> done.files]

(***************************************************************************)
(* files.par_iter().for_each (lib.rs:46, main.rs:54): rayon halves the     *)
(* slice as often as its splitter allows (that depends on the thread count *)
(* and on which jobs were stolen; a list much longer than the thread count *)
(* leaves several items in a leaf) and folds each leaf in order on one     *)
(* worker.  A panic in the closure ends its leaf; the other leaves still   *)
(* run.  A leaf is <<first, last>>.                                        *)
(***************************************************************************)
RECURSIVE LeafSets(_, _)
LeafSets(lo, len) ==
    IF len < 2 THEN {{<<lo + 1, lo + len>>}}
    ELSE {{<<lo + 1, lo + len>>}}
         \cup {L \cup R : L \in LeafSets(lo, len \div 2),
                          R \in LeafSets(lo + len \div 2, len - len \div 2)}

LeafOf(i) == CHOOSE l \in leaves : l[1] <= i /\ i <= l[2]

(* the closure runs for item i once its leaf has finished the items before it *)
IsNext(i) == \A j \in LeafOf(i)[1]..(i - 1) : pc[j] = "done"

ArgumentsSet ==
    [source_root_file_path : {SourceRoot},
     target_root_file_path : {TargetRoot},
     file_extensions : {[kind |-> "Ignored", set |-> {}]},
     folders : {[kind |-> "Ignored", set |-> {}], [kind |-> "Ignored", set |-> {<<"b">>}]},
     follow_links : {FALSE}]

Faults ==
    {NoFault}
    \cup [op : {"copy"}, at : {<<<<"t">>, <<"a", ".", "t">>>>, <<<<"t">>, <<"b">>, <<"c">>>>}]
    \cup [op : {"mkdir"}, at : {<<<<"t">>>>, <<<<"t">>, <<"b">>>>}]

Init ==
    /\ fnCall = <<>> /\ fnRet = None
    /\ phase = "start"
    /\ variant \in {"lib", "main"}
    /\ args \in ArgumentsSet
    /\ sourceFs \in Trees
    /\ targetDirs \in {{}, {<<<<"t">>>>}}
    /\ targetFiles = {}
    /\ fault \in Faults
    /\ files = <<>> /\ leaves = {} /\ pc = <<>> /\ copyResult = <<>> /\ counter = 0

(* lib.rs:17-39 / main.rs:21-40 *)
Gather ==
    /\ phase = "start"
    /\ files' = gather_files_for_copying(args, sourceFs)
    /\ phase' = "gathered"
    /\ UNCHANGED <<fnVars, variant, args, sourceFs, targetDirs, targetFiles, fault,
                   leaves, pc, copyResult, counter>>

(***************************************************************************)
(* The files copy is called with: main.rs:42 passes the gathered list;     *)
(* lib.rs's copy is public and takes any Vec<DirEntry>.                    *)
(***************************************************************************)
CallerFiles ==
    IF variant = "main" THEN {files}
    ELSE {files, Append(files, ForeignEntry), <<ForeignEntry>> \o files}

(* lib.rs:42-46 / main.rs:50-54 *)
CopyBegin ==
    /\ phase = "gathered"
    /\ \E fl \in CallerFiles :
         /\ files' = fl
         /\ leaves' \in LeafSets(0, Len(fl))
         /\ pc' = [i \in 1..Len(fl) |-> "todo"]
         /\ copyResult' = [i \in 1..Len(fl) |-> "none"]
    /\ counter' = 0
    /\ phase' = "copying"
    /\ UNCHANGED <<fnVars, variant, args, sourceFs, targetDirs, targetFiles, fault>>

(* lib.rs:47-51 / main.rs:55-59 *)
ItemPrepare(i) ==
    /\ phase = "copying" /\ pc[i] = "todo" /\ IsNext(i)
    /\ LET r == IF variant = "lib"
                THEN prepare_lib(args, sourceFs, targetDirs, fault, files[i].path)
                ELSE prepare_main(args, sourceFs, targetDirs, fault, files[i].path)
       IN  /\ targetDirs' = r.dirs
           /\ pc' = [pc EXCEPT ![i] = IF r.panicked THEN "panicked" ELSE "prepared"]
    /\ UNCHANGED <<fnVars, phase, variant, args, sourceFs, targetFiles, fault,
                   files, leaves, copyResult, counter>>

(* lib.rs:52-56 / main.rs:60-64 *)
ItemCopy(i) ==
    /\ phase = "copying" /\ pc[i] = "prepared"
    /\ LET r == copy_item(args, sourceFs, targetDirs, targetFiles, fault, files[i].path)
       IN  /\ targetFiles' = r.files
           /\ copyResult' = [copyResult EXCEPT ![i] = r.result]
           /\ pc' = [pc EXCEPT ![i] = IF r.panicked THEN "panicked" ELSE "done"]
           /\ counter' = IF r.panicked THEN counter ELSE counter + 1
    /\ UNCHANGED <<fnVars, phase, variant, args, sourceFs, targetDirs, fault, files, leaves>>

(* a leaf is over when its items are done or one of them panicked *)
LeafOver(l) ==
    \/ \A j \in l[1]..l[2] : pc[j] = "done"
    \/ \E j \in l[1]..l[2] : pc[j] = "panicked"

(***************************************************************************)
(* lib.rs:57-59 / main.rs:65-66: for_each returns when every leaf is over, *)
(* and resumes a closure's panic in the caller when there was one.         *)
(***************************************************************************)
Finish ==
    /\ phase = "copying"
    /\ \A l \in leaves : LeafOver(l)
    /\ \A j \in DOMAIN pc : pc[j] # "prepared"
    /\ phase' = IF \E j \in DOMAIN pc : pc[j] = "panicked" THEN "panicked" ELSE "done"
    /\ UNCHANGED <<fnVars, variant, args, sourceFs, targetDirs, targetFiles, fault,
                   files, leaves, pc, copyResult, counter>>

Next ==
    \/ Gather
    \/ CopyBegin
    \/ \E i \in DOMAIN pc : ItemPrepare(i)
    \/ \E i \in DOMAIN pc : ItemCopy(i)
    \/ Finish

Spec == Init /\ [][Next]_vars

(***************************************************************************)
(* Properties.                                                             *)
(***************************************************************************)
Ended == phase \in {"done", "panicked"}
NoForeign == \A k \in DOMAIN files : files[k] # ForeignEntry
EmptyFilters == args.file_extensions.set = {} /\ args.folders.set = {}
TargetOf(source_path) == Arguments_transform(args, source_path).path[1]
Copied(source_path) == [path |-> TargetOf(source_path), data |-> source_path] \in targetFiles

(* C1: with a folder filter Excluding(S), no entry of the gathered list,
   file or directory, lies beneath a directory whose name is in S. *)
C1_NothingBeneathExcluded ==
    (phase = "gathered" /\ args.folders.kind = "Ignored") =>
        \A k \in DOMAIN files :
            ~ \E d \in sourceFs :
                /\ d.is_dir
                /\ d.path # files[k].path
                /\ Path_strip_prefix(files[k].path, d.path) # None
                /\ Path_file_name(d.path) # None
                /\ Path_file_name(d.path)[1] \in args.folders.set

(* a candidate the claim's "can be copied" covers: a regular file whose copy
   the environment does not refuse and whose target can be opened *)
Copyable(i) ==
    /\ ~files[i].is_dir
    /\ TargetOf(files[i].path) # fault.at
    /\ TargetOf(files[i].path) # Path_components(TargetRoot)
    /\ variant = "main" =>
         DirExists(sourceFs, targetDirs, Path_parent(TargetOf(files[i].path))[1])

(* some closure can take its next step, or for_each can return *)
CanGoOn ==
    \/ \E i \in DOMAIN pc : pc[i] = "todo" /\ IsNext(i)
    \/ \E i \in DOMAIN pc : pc[i] = "prepared"
    \/ \A l \in leaves : LeafOver(l)

(* C2: when the copy of one candidate fails, no closure panics, the batch
   can always go on and ends done, and every other candidate that can be
   copied is at its target with its contents. *)
C2_CopyFailureIsolated ==
    (phase \in {"copying", "done", "panicked"} /\ fault.op = "copy" /\ NoForeign) =>
        /\ phase # "panicked"
        /\ \A i \in DOMAIN pc : pc[i] # "panicked"
        /\ phase = "copying" => CanGoOn
        /\ phase = "done" =>
             \A i \in DOMAIN files :
                 /\ pc[i] = "done"
                 /\ Copyable(i) => (copyResult[i] = "ok" /\ Copied(files[i].path))

(* C2 witness: a finished batch in which the refused copy failed and
   another candidate was copied *)
C2_Witness ==
    /\ phase = "done" /\ fault.op = "copy" /\ NoForeign
    /\ \E i, j \in DOMAIN files :
         /\ i # j
         /\ TargetOf(files[i].path) = fault.at /\ copyResult[i] = "err"
         /\ copyResult[j] = "ok" /\ Copied(files[j].path)

(* C3: when creating the target parent directories of one candidate fails,
   the batch still completes and every other candidate is processed. *)
C3_MkdirFailureIsolated ==
    (fault.op = "mkdir" /\ NoForeign /\ Ended) =>
        /\ phase = "done"
        /\ \A i \in DOMAIN pc : pc[i] # "todo"

(* C4: when the path mapper fails for one candidate not under the source
   root, the batch still completes and every other candidate is processed. *)
C4_MappingFailureIsolated ==
    (~NoForeign /\ fault = NoFault /\ Ended) =>
        /\ phase = "done"
        /\ \A i \in DOMAIN pc : files[i] # ForeignEntry => pc[i] = "done"

(* C5: when the batch ends, the counter equals the number of candidates. *)
C5_CounterCountsEveryCandidate ==
    Ended => counter = Len(files)

(* C6: with empty filters and no I/O failure, after the run every regular
   file under the source root is at the same relative path under the target
   root with the same contents, for lib.rs's copy and main.rs's copy. *)
C6_EveryFileCopied ==
    (Ended /\ EmptyFilters /\ fault = NoFault /\ NoForeign /\ RootEntry \in sourceFs) =>
        \A e \in sourceFs : ~e.is_dir => Copied(e.path)

(* C10: when the source root does not exist or is not a directory, the copy
   phase is never entered and the run does not complete. *)
C10_FailsFastWithoutSourceRoot ==
    RootEntry \notin sourceFs => phase \notin {"copying", "done"}

Returned(fn) == fnCall # <<>> /\ fnCall.fn = fn /\ fnRet # None

(* the pieces of a path string between separators: maximal separator-free
   runs *)
Segments(p) ==
    {SubSeq(p, ij[1], ij[2]) : ij \in
        {ij \in (DOMAIN p) \X (DOMAIN p) :
            /\ ij[1] <= ij[2]
            /\ \A k \in ij[1]..ij[2] : p[k] # MAIN_SEPARATOR
            /\ (ij[1] = 1 \/ p[ij[1] - 1] = MAIN_SEPARATOR)
            /\ (ij[2] = Len(p) \/ p[ij[2] + 1] = MAIN_SEPARATOR)}}

(* the text after the last "." of n, which holds one *)
AfterLastDot(n) ==
    LET k == CHOOSE i \in DOMAIN n :
                 n[i] = DOT /\ \A j \in (i + 1)..Len(n) : n[j] # DOT
    IN  [i \in 1..(Len(n) - k) |-> n[k + i]]

(* the extension as the specification words it *)
StatedExtension(n) ==
    IF \A i \in DOMAIN n : n[i] # DOT THEN <<>> ELSE <<DOT>> \o AfterLastDot(n)

(* the extension, empty also for a name whose only "." is its first
   character *)
AmendedExtension(n) ==
    IF \A i \in 2..Len(n) : n[i] # DOT
    THEN <<>> ELSE <<DOT>> \o AfterLastDot(n)

(* C7, as stated: Excluding(S) copies iff extension(n) is not in S,
   Including(S) iff it is, the extension being "." and what follows the last
   "." of the name, empty exactly when the name holds no ".". *)
C7_AsStated ==
    Returned("file_extension_filter") =>
        fnRet[1] = IF fnCall.mode.kind = "Ignored"
                   THEN StatedExtension(fnCall.file_name) \notin fnCall.mode.set
                   ELSE StatedExtension(fnCall.file_name) \in fnCall.mode.set

(* C7, amended: the same, the extension being empty exactly when the name
   holds no "." after its first character. *)
C7_Amended ==
    Returned("file_extension_filter") =>
        fnRet[1] = IF fnCall.mode.kind = "Ignored"
                   THEN AmendedExtension(fnCall.file_name) \notin fnCall.mode.set
                   ELSE AmendedExtension(fnCall.file_name) \in fnCall.mode.set

(* C7 witness: a name whose only "." is its first character has the empty
   extension, so Excluding({".a"}) lets ".a" through *)
C7_Witness ==
    /\ Returned("file_extension_filter")
    /\ fnCall.file_name = <<DOT, "a">>
    /\ fnCall.mode = [kind |-> "Ignored", set |-> {<<DOT, "a">>}]
    /\ fnRet = Some(TRUE)

(* C8: Excluding(S) includes a directory path iff none of its non-empty
   segments is in S; Including(S) iff at least one is. *)
C8_FolderFilterBySegments ==
    Returned("folder_filter") =>
        fnRet[1] = IF fnCall.mode.kind = "Ignored"
                   THEN Segments(fnCall.path) \cap fnCall.mode.set = {}
                   ELSE Segments(fnCall.path) \cap fnCall.mode.set # {}

(* C8 witness: a directory beneath an excluded one is excluded by its
   ancestor segment *)
C8_Witness ==
    /\ Returned("folder_filter")
    /\ fnCall.path = <<MAIN_SEPARATOR, "b", MAIN_SEPARATOR, "a", MAIN_SEPARATOR>>
    /\ fnCall.mode = [kind |-> "Ignored", set |-> {<<"b">>, <<"a", "b">>}]
    /\ fnRet = Some(FALSE)

(* C9: a source path beneath the source root maps to the target root's
   components followed by the rest of the source path's; any other source
   path fails and yields no path. *)
C9_MapsBeneathTargetRoot ==
    Returned("transform") =>
        LET root == Path_components(fnCall.source_root)
            path == Path_components(fnCall.source_path)
            beneath == Len(root) <= Len(path) /\ SubSeq(path, 1, Len(root)) = root
        IN  IF beneath
            THEN fnRet[1] = [panicked |-> FALSE,
                             path |-> Some(Path_components(fnCall.target_root)
                                           \o SubSeq(path, Len(root) + 1, Len(path)))]
            ELSE fnRet[1] = [panicked |-> TRUE, path |-> None]
=============================================================================
